---- MODULE Spec2Model ----
(***************************************************************************)
(* Lane-week carrier assignment optimizer of the Carrier Tender            *)
(* Optimization dashboard (components/optimization.py, metrics.py), with   *)
(* the performance ingestion and backfill that feed it (data_processor.py, *)
(* performance_calculator.py) and the suboptimal selection analysis        *)
(* (suboptimal_analysis.py).                                               *)
(*                                                                         *)
(* Numbers.  Base Rate is in whole dollars, Performance_Score in whole     *)
(* percent (0.6 is 60), a weight in tenths (0.7 is 7).  The objective      *)
(* coefficients of one run are all multiplied by the same positive number  *)
(* (total_weight * rate_range * perf_range), so that they are integers and *)
(* are compared exactly.                                                   *)
(*                                                                         *)
(* The names LpProblem, LpVariable, lpSum, LpStatus and PULP_CBC_CMD are   *)
(* those of the PuLP library.  The solver is a library: a solve either     *)
(* raises, or reports a status other than Optimal, or reports Optimal with *)
(* some assignment that satisfies the constraints and minimises the        *)
(* objective (any of them when several do).                                *)
(***************************************************************************)
EXTENDS Integers, Sequences, FiniteSets

VARIABLES
    data,               \* final_filtered_data: the sequence of input records
    cost_weight,        \* the weight pair handed to the optimizer
    performance_weight,
    session_state,      \* st.session_state: a function from the keys that are set
    call,               \* the last optimizer call: its entry point, outcome and result
    metrics,            \* what calculate_enhanced_metrics last returned
    Performancedata,    \* the uploaded performance sheet: one row per carrier
    lane_count,         \* the container counts grouped from the GVT data
    merged_data,        \* main's merged_data: lane_count with Performance_Score
    performance_processed   \* merged_data._performance_processed

vars == <<data, cost_weight, performance_weight, session_state, call, metrics,
          Performancedata, lane_count, merged_data, performance_processed>>

\* the variables of the ingestion: what main() builds before the filters
ingestion == <<Performancedata, lane_count, merged_data, performance_processed>>

(***************************************************************************)
(* Bounds and input domains                                                *)
(***************************************************************************)
MaxRecords == 2

NA == -1        \* a missing Performance_Score (NaN)

LaneWeeks == {<<"L1", 5>>, <<"L2", 5>>}
Carriers == {"A", "B"}
\* <<Base Rate, Performance_Score, Container Count>> of an enumerated record
RecordValues ==
    { <<450, 60, 1>>, <<450, 90, 1>>, <<500, 60, 1>>, <<500, 90, 2>>,
      <<500, NA, 1>>, <<450, 90, 0>>, <<500, 60, 0>> }

Rec(lane, week, scac, rate, perf, cnt) ==
    [Lane |-> lane, Week_Number |-> week, Dray_SCAC |-> scac,
     Base_Rate |-> rate, Performance_Score |-> perf, Container_Count |-> cnt]

Records ==
    { Rec(lw[1], lw[2], c, v[1], v[2], v[3]) :
        lw \in LaneWeeks, c \in Carriers, v \in RecordValues }

SeqsUpTo(S, n) == UNION { [1..k -> S] : k \in 0..n }

\* The two scenarios of the specification's section 8 in one dataset:
\* L1 week 5 with carrierA (500, 0.6) and carrierB (450, 0.9), volume 10,
\* and the single-offer group L2 week 5 (carrierC, 600, 0.2, volume 20).
ScenarioData ==
    << Rec("L1", 5, "A", 500, 60, 4), Rec("L1", 5, "B", 450, 90, 6),
       Rec("L2", 5, "C", 600, 20, 20) >>

\* The single-offer scenario alone.
SingletonData == << Rec("L2", 5, "C", 600, 20, 20) >>

\* A two-carrier group whose choice is a trade-off, next to a single-record
\* group whose rate lies outside the rates of the two-carrier group, and the
\* same lane in a second week.
TradeOffData ==
    << Rec("L1", 5, "A", 450, 20, 1), Rec("L1", 5, "B", 500, 90, 1),
       Rec("L2", 5, "C", 600, 60, 2), Rec("L1", 6, "A", 500, 60, 3) >>

\* ScenarioData before the performance of carrierC is filled in
IncompleteData ==
    << Rec("L1", 5, "A", 500, 60, 4), Rec("L1", 5, "B", 450, 90, 6),
       Rec("L2", 5, "C", 600, NA, 20) >>

Datasets ==
    SeqsUpTo(Records, MaxRecords)
      \cup {ScenarioData, SingletonData, TradeOffData, IncompleteData}

\* <<cost_weight, performance_weight>> in tenths: 0.7/0.3, cost only,
\* performance only, 7/3 and 0/0
WeightPairs == { <<7, 3>>, <<10, 0>>, <<0, 10>>, <<70, 30>>, <<0, 0>> }

(***************************************************************************)
(* pandas helpers                                                          *)
(***************************************************************************)
\* groupby sorts its keys; the strings of the model in their sort order
NameOrder == <<"A", "B", "C", "L1", "L2">>
Rank(s) == CHOOSE i \in 1..Len(NameOrder) : NameOrder[i] = s

\* lexicographic order of (Lane, Week Number, Dray SCAC(FL)) keys
KeyLess(a, b) ==
    \/ Rank(a[1]) < Rank(b[1])
    \/ a[1] = b[1] /\ a[2] < b[2]
    \/ a[1] = b[1] /\ a[2] = b[2] /\ Rank(a[3]) < Rank(b[3])

RECURSIVE SortedKeys(_)
SortedKeys(S) ==
    IF S = {} THEN <<>>
    ELSE LET m == CHOOSE x \in S : \A y \in S \ {x} : KeyLess(x, y)
         IN  <<m>> \o SortedKeys(S \ {m})

\* rows of d (as indices) of one lane-week, of one lane-week-carrier
LaneWeekRows(d, lane, week) ==
    { i \in DOMAIN d : d[i].Lane = lane /\ d[i].Week_Number = week }
CarrierRows(d, lane, week, scac) ==
    { i \in LaneWeekRows(d, lane, week) : d[i].Dray_SCAC = scac }

\* ['Container Count'].sum() over the rows I
RECURSIVE SumCount(_, _)
SumCount(d, I) ==
    IF I = {} THEN 0
    ELSE LET i == CHOOSE x \in I : TRUE
         IN  d[i].Container_Count + SumCount(d, I \ {i})

\* (mutant) the last row instead of the first
FirstRow_Last(I) == CHOOSE i \in I : \A j \in I : j <= i

\* agg 'first': the value of the first row of I (in row order) that is not null
FirstRow(I) == CHOOSE i \in I : \A j \in I : i <= j
FirstPerformance(d, I) ==
    LET ok == { i \in I : d[i].Performance_Score # NA }
    IN  IF ok = {} THEN NA ELSE d[FirstRow(ok)].Performance_Score
FirstRate(d, I) == d[FirstRow(I)].Base_Rate

\* merged_data['Total Rate'] = Base Rate * Container Count
TotalRate(r) == r.Base_Rate * r.Container_Count
RECURSIVE SumTotalRate(_, _)
SumTotalRate(d, I) ==
    IF I = {} THEN 0
    ELSE LET i == CHOOSE x \in I : TRUE
         IN  TotalRate(d[i]) + SumTotalRate(d, I \ {i})

\* (mutant) the completeness check finds nothing
missing_performance_Unchecked(d) == 0

\* opt_data['Performance_Score'].isna().sum()
missing_performance(d) ==
    Cardinality({ i \in DOMAIN d : d[i].Performance_Score = NA })

\* lane_week_counts = groupby(['Lane', 'Week Number']).size(): rows per lane-week
LaneWeekKeys(d) == { <<d[i].Lane, d[i].Week_Number>> : i \in DOMAIN d }
lane_week_counts(d, g) == Cardinality(LaneWeekRows(d, g[1], g[2]))
multi_carrier_lanes(d) == { g \in LaneWeekKeys(d) : lane_week_counts(d, g) > 1 }
\* (mutant) every lane-week is also handled as a single-carrier lane
single_carrier_lanes_All(d) == LaneWeekKeys(d)

single_carrier_lanes(d) == { g \in LaneWeekKeys(d) : lane_week_counts(d, g) = 1 }

\* sub-sequence of d made of the rows in I, in row order
RECURSIVE SelectRows(_, _, _)
SelectRows(d, I, n) ==
    IF n = 0 THEN <<>>
    ELSE IF n \in I THEN Append(SelectRows(d, I, n - 1), d[n])
         ELSE SelectRows(d, I, n - 1)
RowsOfLanes(d, G) ==
    SelectRows(d, { i \in DOMAIN d : <<d[i].Lane, d[i].Week_Number>> \in G }, Len(d))

(***************************************************************************)
(* Offer aggregation: lane_week_carriers                                   *)
(***************************************************************************)
\* (mutant) the volume of the first row's carrier instead of the lane-week's
lane_week_totals_OneCarrier(d, lane, week) ==
    SumCount(d, CarrierRows(d, lane, week,
                            d[FirstRow(LaneWeekRows(d, lane, week))].Dray_SCAC))

\* Total_Lane_Volume: the Container Count of all rows of the lane-week
lane_week_totals(d, lane, week) == SumCount(d, LaneWeekRows(d, lane, week))

\* one row per (Lane, Week Number, Dray SCAC(FL)), merged with lane_week_totals
lane_week_carriers(d) ==
    LET keys == SortedKeys({ <<d[i].Lane, d[i].Week_Number, d[i].Dray_SCAC>> :
                               i \in DOMAIN d })
    IN  [ k \in 1..Len(keys) |->
            LET I == CarrierRows(d, keys[k][1], keys[k][2], keys[k][3])
            IN  [ Lane |-> keys[k][1], Week_Number |-> keys[k][2],
                  Dray_SCAC |-> keys[k][3],
                  Base_Rate |-> FirstRate(d, I),
                  Performance_Score |-> FirstPerformance(d, I),
                  Container_Count |-> SumCount(d, I),
                  Total_Lane_Volume |-> lane_week_totals(d, keys[k][1], keys[k][2]) ] ]

(***************************************************************************)
(* setup_optimization_objective                                            *)
(***************************************************************************)
Max(S) == CHOOSE x \in S : \A y \in S : y <= x
Min(S) == CHOOSE x \in S : \A y \in S : x <= y

max_rate(offers) == Max({ offers[i].Base_Rate : i \in DOMAIN offers })
\* (mutant) the rates are normalised from 0 instead of from the lowest rate
min_rate_Zero(offers) == 0
min_rate(offers) == Min({ offers[i].Base_Rate : i \in DOMAIN offers })
max_perf(offers) == Max({ offers[i].Performance_Score : i \in DOMAIN offers })
min_perf(offers) == Min({ offers[i].Performance_Score : i \in DOMAIN offers })

\* the bounds one run normalises with
NormBounds(offers) ==
    [ min_rate |-> min_rate(offers), max_rate |-> max_rate(offers),
      min_perf |-> min_perf(offers), max_perf |-> max_perf(offers) ]

\* "avoid division by zero"
rate_range(offers) ==
    IF max_rate(offers) # min_rate(offers)
    THEN max_rate(offers) - min_rate(offers) ELSE 1
perf_range(offers) ==
    IF max_perf(offers) # min_perf(offers)
    THEN max_perf(offers) - min_perf(offers) ELSE 1

\* (mutants) normalised the wrong way round: 0 for the dearest, 0 for the best
norm_cost_Inverted(offers, i) ==
    << max_rate(offers) - offers[i].Base_Rate, rate_range(offers) >>
norm_performance_Inverted(offers, i) ==
    << max_perf(offers) - offers[i].Performance_Score, perf_range(offers) >>

\* norm_cost and norm_performance of offer i as <<numerator, denominator>>
norm_cost(offers, i) ==
    << offers[i].Base_Rate - min_rate(offers), rate_range(offers) >>
norm_performance(offers, i) ==
    << offers[i].Performance_Score - min_perf(offers), perf_range(offers) >>

\* <<norm_cost_weight, norm_performance_weight>> as numerators over total_weight;
\* 0.5 and 0.5 (1 and 1 over 2) when the weights sum to 0
total_weight(cw, pw) == IF cw + pw > 0 THEN cw + pw ELSE 2
\* (mutant) weights that do not sum to 1.0 are replaced instead of normalised
norm_cost_weight_SumOneOnly(cw, pw) == IF cw + pw = 10 THEN cw ELSE 1
norm_cost_weight(cw, pw) == IF cw + pw > 0 THEN cw ELSE 1
\* (mutant) no fallback when the weights sum to 0
norm_performance_weight_NoFallback(cw, pw) == pw
norm_performance_weight(cw, pw) == IF cw + pw > 0 THEN pw ELSE 1

\* (mutant) the performance component added instead of subtracted
ObjectiveCoef_PerfAdded(offers, i, cw, pw) ==
    offers[i].Total_Lane_Volume *
      ( norm_cost_weight(cw, pw) * norm_cost(offers, i)[1] * perf_range(offers)
        + norm_performance_weight(cw, pw) * norm_performance(offers, i)[1]
            * rate_range(offers) )

\* cost_component - perf_component of offer i, multiplied by
\* total_weight * rate_range * perf_range (a positive number, the same for
\* every offer of the run)
ObjectiveCoef(offers, i, cw, pw) ==
    offers[i].Total_Lane_Volume *
      ( norm_cost_weight(cw, pw) * norm_cost(offers, i)[1] * perf_range(offers)
        - norm_performance_weight(cw, pw) * norm_performance(offers, i)[1]
            * rate_range(offers) )

RECURSIVE SumObjective(_, _, _, _, _)
SumObjective(offers, x, cw, pw, n) ==
    IF n = 0 THEN 0
    ELSE x[n] * ObjectiveCoef(offers, n, cw, pw)
           + SumObjective(offers, x, cw, pw, n - 1)

\* lpSum(objective_terms) under the 0/1 values x of the decision variables
Objective(offers, x, cw, pw) == SumObjective(offers, x, cw, pw, Len(offers))

(***************************************************************************)
(* add_optimization_constraints                                            *)
(***************************************************************************)
OfferGroups(offers) ==
    { <<offers[i].Lane, offers[i].Week_Number>> : i \in DOMAIN offers }
\* (mutant) the offers of a lane, whatever the week
GroupOffers_LaneOnly(offers, g) ==
    { i \in DOMAIN offers : offers[i].Lane = g[1] }

GroupOffers(offers, g) ==
    { i \in DOMAIN offers : offers[i].Lane = g[1] /\ offers[i].Week_Number = g[2] }

RECURSIVE SumVars(_, _)
SumVars(x, I) ==
    IF I = {} THEN 0
    ELSE LET i == CHOOSE j \in I : TRUE IN x[i] + SumVars(x, I \ {i})

\* (mutant) at most one carrier per lane-week instead of exactly one
GroupConstraint_AtMostOne(offers, x, g) ==
    IF Cardinality(GroupOffers(offers, g)) > 1
    THEN SumVars(x, GroupOffers(offers, g)) <= 1
    ELSE x[FirstRow(GroupOffers(offers, g))] = 1

\* the constraint of one lane-week group
GroupConstraint(offers, x, g) ==
    IF Cardinality(GroupOffers(offers, g)) > 1
    THEN SumVars(x, GroupOffers(offers, g)) = 1
    ELSE x[FirstRow(GroupOffers(offers, g))] = 1

Constraints(offers, x) ==
    \A g \in OfferGroups(offers) : GroupConstraint(offers, x, g)

(***************************************************************************)
(* prob.solve(PULP_CBC_CMD(msg=0))                                         *)
(***************************************************************************)
\* Binary decision variables, one per row of lane_week_carriers
Assignments(offers) == [DOMAIN offers -> {0, 1}]
Feasible(offers) == { x \in Assignments(offers) : Constraints(offers, x) }
OptimalAssignments(offers, cw, pw) ==
    { x \in Feasible(offers) :
        \A y \in Feasible(offers) :
            Objective(offers, x, cw, pw) <= Objective(offers, y, cw, pw) }

\* what a solve can come back with
SolveOutcomes(offers, cw, pw) ==
    { [status |-> "Optimal", varValue |-> x] : x \in OptimalAssignments(offers, cw, pw) }
      \cup { [status |-> "Not Solved", varValue |-> <<>>],
             [status |-> "Raised", varValue |-> <<>>] }

(***************************************************************************)
(* Result rows                                                             *)
(***************************************************************************)
\* (mutant) the cost of a row from the carrier's own volume
AssignmentRow_CarrierVolume(o) ==
    [ Lane |-> o.Lane, Week_Number |-> o.Week_Number, Dray_SCAC |-> o.Dray_SCAC,
      Container_Count |-> o.Total_Lane_Volume,
      Base_Rate |-> o.Base_Rate,
      Performance_Score |-> o.Performance_Score,
      Total_Rate |-> o.Base_Rate * o.Container_Count ]

\* One selected assignment.  display_optimization_results shows the same
\* values as text under the headings Assigned SCAC, Total Containers and
\* Total Cost; get_optimization_results returns them under these names.
AssignmentRow(o) ==
    [ Lane |-> o.Lane, Week_Number |-> o.Week_Number, Dray_SCAC |-> o.Dray_SCAC,
      Container_Count |-> o.Total_Lane_Volume,
      Base_Rate |-> o.Base_Rate,
      Performance_Score |-> o.Performance_Score,
      Total_Rate |-> o.Base_Rate * o.Total_Lane_Volume ]

\* row['choice_var'].varValue and row['choice_var'].varValue > 0.5
Selected(x, i) == x[i] # 0 /\ 2 * x[i] > 1

\* selected_assignments of the solved rows, in row order
RECURSIVE SelectedAssignments(_, _, _)
SelectedAssignments(offers, x, n) ==
    IF n = 0 THEN <<>>
    ELSE IF Selected(x, n)
         THEN Append(SelectedAssignments(offers, x, n - 1), AssignmentRow(offers[n]))
         ELSE SelectedAssignments(offers, x, n - 1)

\* total_opt_cost of run_optimization
RECURSIVE total_opt_cost(_, _, _)
total_opt_cost(offers, x, n) ==
    IF n = 0 THEN 0
    ELSE (IF Selected(x, n) THEN offers[n].Base_Rate * offers[n].Total_Lane_Volume ELSE 0)
           + total_opt_cost(offers, x, n - 1)

\* the rows get_optimization_results appends for the single carrier lanes
SingleCarrierAssignments(d) ==
    LET single == RowsOfLanes(d, single_carrier_lanes(d))
        keys == SortedKeys({ <<single[i].Lane, single[i].Week_Number, single[i].Dray_SCAC>> :
                               i \in DOMAIN single })
    IN  [ k \in 1..Len(keys) |->
            LET I == LaneWeekRows(single, keys[k][1], keys[k][2])
                row == single[FirstRow(I)]
                total_containers == SumCount(single, I)
            IN  [ Lane |-> keys[k][1], Week_Number |-> keys[k][2],
                  Dray_SCAC |-> row.Dray_SCAC,
                  Container_Count |-> total_containers,
                  Base_Rate |-> row.Base_Rate,
                  Performance_Score |-> row.Performance_Score,
                  Total_Rate |-> row.Base_Rate * total_containers ] ]

(***************************************************************************)
(* st.session_state                                                        *)
(***************************************************************************)
EmptySession == [k \in {} |-> 0]
Has(ss, k) == k \in DOMAIN ss
\* (mutant) an assignment that also writes the key last_data_key
Put_AlsoDataKey(ss, k, v) ==
    [x \in DOMAIN ss \cup {k, "last_data_key"} |->
        IF x = k \/ x \notin DOMAIN ss THEN v ELSE ss[x]]

Put(ss, k, v) == [x \in DOMAIN ss \cup {k} |-> IF x = k THEN v ELSE ss[x]]

(***************************************************************************)
(* The optimizer's entry points                                            *)
(***************************************************************************)
NoCall ==
    [ op |-> "none", cost_weight |-> 0, performance_weight |-> 0,
      outcome |-> "none", offers |-> <<>>, varValue |-> <<>>, rows |-> <<>> ]

Call(op, cw, pw, outcome, offers, x, rows) ==
    [ op |-> op, cost_weight |-> cw, performance_weight |-> pw,
      outcome |-> outcome, offers |-> offers, varValue |-> x, rows |-> rows ]

\* run_optimization(final_filtered_data, cost_weight, performance_weight) from the
\* session ss: every <<session_state, call>> it can end with
run_optimization(d, cw, pw, ss) ==
    LET ss1 == Put(Put(ss, "optimization_cost_weight", cw),
                   "optimization_performance_weight", pw)
        offers == lane_week_carriers(d)
    IN  IF missing_performance(d) > 0
        THEN { <<ss1, Call("run_optimization", cw, pw, "missing_performance", <<>>, <<>>, <<>>)>> }
        ELSE IF Len(d) = 0
        THEN { <<ss1, Call("run_optimization", cw, pw, "no_data", <<>>, <<>>, <<>>)>> }
        ELSE IF multi_carrier_lanes(d) = {}
        THEN { <<ss1, Call("run_optimization", cw, pw, "no_multi_carrier_lanes", <<>>, <<>>, <<>>)>> }
        ELSE { IF s.status = "Optimal"
               THEN << Put(Put(Put(ss1,
                         "optimization_cost", total_opt_cost(offers, s.varValue, Len(offers))),
                         "optimization_available", TRUE),
                         "optimization_savings",
                             SumTotalRate(d, DOMAIN d)
                               - total_opt_cost(offers, s.varValue, Len(offers))),
                       Call("run_optimization", cw, pw, "complete", offers, s.varValue,
                            SelectedAssignments(offers, s.varValue, Len(offers))) >>
               ELSE << Put(ss1, "optimization_available", FALSE),
                       Call("run_optimization", cw, pw,
                            IF s.status = "Raised" THEN "error" ELSE "failed",
                            offers, <<>>, <<>>) >>
               : s \in SolveOutcomes(offers, cw, pw) }

\* a weight argument left out (None); the weights a call without them falls
\* back to when the session holds none
None == -2
default_cost_weight == 7
default_performance_weight == 3

\* the weight get_optimization_results works with for the argument w: the one
\* stored under key when w is left out and the session has it, the default dflt
\* when w is left out and the session has none, else w
default_weight(w, ss, key, dflt) ==
    IF w = None /\ Has(ss, key) THEN ss[key]
    ELSE IF w = None THEN dflt
    ELSE w

\* (mutant) a solve that is not Optimal still returns the single carrier rows
failed_result_SinglesKept(cw, pw, offers, singles) ==
    Call("get_optimization_results", cw, pw,
         IF singles # <<>> THEN "result_df" ELSE "None", offers, <<>>, singles)

\* "return None  # Optimization failed", also from the except clause
failed_result(cw, pw, offers, singles) ==
    Call("get_optimization_results", cw, pw, "None", offers, <<>>, <<>>)

\* get_optimization_results(final_filtered_data, cost_weight, performance_weight)
\* in the session ss: every call record it can end with; outcome "None" is a
\* return of None
get_optimization_results(d, cost_weight_arg, performance_weight_arg, ss) ==
    LET cw == default_weight(cost_weight_arg, ss, "optimization_cost_weight",
                             default_cost_weight)
        pw == default_weight(performance_weight_arg, ss,
                             "optimization_performance_weight",
                             default_performance_weight)
        offers == lane_week_carriers(RowsOfLanes(d, multi_carrier_lanes(d)))
        singles == IF single_carrier_lanes(d) # {}
                   THEN SingleCarrierAssignments(d) ELSE <<>>
    IN  IF missing_performance(d) > 0 \/ Len(d) = 0
        THEN { Call("get_optimization_results", cw, pw, "None", <<>>, <<>>, <<>>) }
        ELSE IF multi_carrier_lanes(d) = {}
        THEN { Call("get_optimization_results", cw, pw,
                    IF singles # <<>> THEN "result_df" ELSE "None",
                    <<>>, <<>>, singles) }
        ELSE { IF s.status = "Optimal"
               THEN LET rows == SelectedAssignments(offers, s.varValue, Len(offers))
                                  \o singles
                    IN  Call("get_optimization_results", cw, pw,
                             IF rows # <<>> THEN "result_df" ELSE "None",
                             offers, s.varValue, rows)
               ELSE failed_result(cw, pw, offers, singles)
               : s \in SolveOutcomes(offers, cw, pw) }

\* optimization_results['Total Rate'].sum()
RECURSIVE SumResultTotalRate(_, _)
SumResultTotalRate(rows, n) ==
    IF n = 0 THEN 0
    ELSE rows[n].Total_Rate + SumResultTotalRate(rows, n - 1)

\* calculate_enhanced_metrics has not been called; it returned None
NotCalculated ==
    [ returned |-> "not called", total_cost |-> 0, optimized_cost |-> 0,
      optimization_savings |-> 0, optimization_available |-> FALSE,
      optimization_cost_weight |-> 0, optimization_performance_weight |-> 0 ]
NoMetrics == [ NotCalculated EXCEPT !.returned = "None" ]

\* calculate_enhanced_metrics(final_filtered_data) with the slider weights cw and
\* pw of the session ss: every <<metrics, call>> it can end with, call being its
\* call of get_optimization_results (NoCall when it makes none)
calculate_enhanced_metrics(d, cw, pw, ss) ==
    LET total_cost == SumTotalRate(d, DOMAIN d)
        unavailable ==
            [ returned |-> "metrics", total_cost |-> total_cost,
              optimized_cost |-> total_cost, optimization_savings |-> 0,
              optimization_available |-> FALSE,
              optimization_cost_weight |-> cw,
              optimization_performance_weight |-> pw ]
        optimization_possible ==
            Len(d) > 0
              /\ Cardinality({ i \in DOMAIN d : d[i].Performance_Score # NA }) > 0
    IN  IF Len(d) = 0
        THEN { <<NoMetrics, NoCall>> }
        ELSE IF ~optimization_possible
        THEN { <<unavailable, NoCall>> }
        ELSE { IF c.outcome = "result_df" /\ Len(c.rows) > 0
               THEN LET optimized_cost == SumResultTotalRate(c.rows, Len(c.rows))
                    IN  << [ unavailable EXCEPT
                               !.optimized_cost = optimized_cost,
                               !.optimization_savings = total_cost - optimized_cost,
                               !.optimization_available = TRUE ],
                           c >>
               ELSE << unavailable, c >>
               : c \in get_optimization_results(d, cw, pw, ss) }

\* the optimizer and the dashboard session are modelled from final_filtered_data
\* on: there the variables of the ingestion stay empty
NotIngested ==
    /\ Performancedata = <<>>
    /\ lane_count = <<>>
    /\ merged_data = <<>>
    /\ performance_processed = FALSE

(***************************************************************************)
(* One optimizer call on any dataset and weight pair                       *)
(***************************************************************************)
Init ==
    /\ data \in Datasets
    /\ \E w \in WeightPairs : cost_weight = w[1] /\ performance_weight = w[2]
    /\ session_state = EmptySession
    /\ call = NoCall
    /\ metrics = NotCalculated
    /\ NotIngested

\* the Run Optimization button's handler
RunOptimization ==
    /\ call.op = "none" /\ metrics = NotCalculated
    /\ \E r \in run_optimization(data, cost_weight, performance_weight, session_state) :
          /\ session_state' = r[1]
          /\ call' = r[2]
    /\ UNCHANGED <<data, cost_weight, performance_weight, metrics>>
    /\ UNCHANGED ingestion

\* the analysis table's call
GetOptimizationResults ==
    /\ call.op = "none" /\ metrics = NotCalculated
    /\ call' \in get_optimization_results(data, cost_weight, performance_weight,
                                          session_state)
    /\ UNCHANGED <<data, cost_weight, performance_weight, session_state, metrics>>
    /\ UNCHANGED ingestion

\* the metrics card: main() calls calculate_enhanced_metrics
CalculateEnhancedMetrics ==
    /\ call.op = "none" /\ metrics = NotCalculated
    /\ \E r \in calculate_enhanced_metrics(data, cost_weight, performance_weight,
                                           session_state) :
          /\ metrics' = r[1]
          /\ call' = r[2]
    /\ UNCHANGED <<data, cost_weight, performance_weight, session_state>>
    /\ UNCHANGED ingestion

Next == RunOptimization \/ GetOptimizationResults \/ CalculateEnhancedMetrics

Spec == Init /\ [][Next]_vars

(***************************************************************************)
(* The dashboard session: every widget event reruns the script, main()     *)
(***************************************************************************)
\* comprehensive_data: the uploaded and merged data the filters select from
comprehensive_data == TradeOffData

\* the selections of the week filter and of the SCAC filter; the empty selection
\* is "All".  (The port and facility filters select whole lanes; they stay at All.)
WeekSelections == { {}, {6} }
ScacSelections == { {}, {"A"}, {"C"}, {"A", "B"} }

\* apply_filters_to_data with st.session_state.filter_weeks = weeks and
\* st.session_state.filter_scacs = scacs
apply_filters_to_data(d, weeks, scacs) ==
    SelectRows(d,
               { i \in DOMAIN d :
                   /\ weeks # {} => d[i].Week_Number \in weeks
                   /\ scacs # {} => d[i].Dray_SCAC \in scacs },
               Len(d))

FilteredViews ==
    { apply_filters_to_data(comprehensive_data, w, c) :
        w \in WeekSelections, c \in ScacSelections }

\* the positions of a weight slider: 0.0 to 1.0 in steps of 0.1
SliderValues == 0..10

\* the positions the sliders are moved to in the sessions that also change the
\* filters
SliderStops == {0, 3, 7, 10}

\* data_key of show_detailed_analysis_table: the number of rows and the sum of
\* Total Rate
data_key(d) == <<Len(d), SumTotalRate(d, DOMAIN d)>>

\* current_data: the columns of the current selection
RECURSIVE current_data(_, _)
current_data(d, n) ==
    IF n = 0 THEN <<>>
    ELSE Append(current_data(d, n - 1),
                [ Lane |-> d[n].Lane, Week_Number |-> d[n].Week_Number,
                  Dray_SCAC |-> d[n].Dray_SCAC,
                  Container_Count |-> d[n].Container_Count,
                  Base_Rate |-> d[n].Base_Rate,
                  Performance_Score |-> d[n].Performance_Score,
                  Total_Rate |-> TotalRate(d[n]) ])

\* scenarios['Optimized'] built from what get_optimization_results returned (c);
\* the weights are part of its description
OptimizedScenario(d, c) ==
    IF c.outcome = "result_df" /\ Len(c.rows) > 0
    THEN [ data |-> c.rows, filename |-> "optimized_assignments.csv",
           cost_weight |-> c.cost_weight, performance_weight |-> c.performance_weight ]
    ELSE [ data |-> current_data(d, Len(d)), filename |-> "optimized_fallback.csv",
           cost_weight |-> c.cost_weight, performance_weight |-> c.performance_weight ]

\* show_detailed_analysis_table(final_filtered_data) as main() calls it (only
\* when there are rows): every <<session_state, call>> it can end with.  Of the
\* scenarios it stores, the model keeps the Optimized one.
show_detailed_analysis_table(d, cw, pw, ss) ==
    IF Len(d) = 0
    THEN { <<ss, NoCall>> }
    ELSE IF ~Has(ss, "analysis_scenarios") \/ ss["data_key"] # data_key(d)
    THEN { << Put(Put(ss, "analysis_scenarios", OptimizedScenario(d, c)),
                  "data_key", data_key(d)), c >> :
             c \in get_optimization_results(d, cw, pw, ss) }
    ELSE { <<ss, NoCall>> }

\* show_optimization_section draws the sliders and the button
perf_data_available(d) ==
    Cardinality({ i \in DOMAIN d : d[i].Performance_Score # NA })
SlidersShown(d) == Len(d) > 0 /\ perf_data_available(d) # 0

\* (mutant) the callback of the cost slider leaves the performance weight as it is
update_performance_weight_Kept(cw, pw) == pw

\* the callbacks of the two sliders: the other weight becomes 1.0 minus the
\* weight that was moved (cw and pw are the weights after the move)
update_performance_weight(cw, pw) == 10 - cw
update_cost_weight(cw, pw) == 10 - pw

\* one run of the script with the data d and the weights cw and pw of the
\* session ss: the metrics, the analysis table when there is data, then the
\* optimization section, which calls run_optimization when its button was
\* clicked.  Every <<session_state, call, metrics>> it can end with, call being
\* the last call of the optimizer after the metrics.
main(d, cw, pw, ss, clicked) ==
    UNION { UNION { { << r[1], r[2], m[1] >> :
                        r \in IF clicked /\ SlidersShown(d)
                              THEN run_optimization(d, cw, pw, t[1])
                              ELSE { t } } :
                    t \in show_detailed_analysis_table(d, cw, pw, ss) } :
            m \in calculate_enhanced_metrics(d, cw, pw, ss) }

\* the session after the first run of the script: the weights start at 0.7/0.3
InitDash ==
    /\ data \in FilteredViews
    /\ cost_weight = default_cost_weight
    /\ performance_weight = default_performance_weight
    /\ \E r \in main(data, default_cost_weight, default_performance_weight,
                      EmptySession, FALSE) :
          session_state = r[1] /\ call = r[2] /\ metrics = r[3]
    /\ NotIngested

\* the filters change the dataset
ChangeFilters ==
    /\ \E w \in WeekSelections, c \in ScacSelections :
          LET d == apply_filters_to_data(comprehensive_data, w, c)
          IN  /\ d # data
              /\ data' = d
              /\ \E r \in main(d, cost_weight, performance_weight, session_state,
                                FALSE) :
                    session_state' = r[1] /\ call' = r[2] /\ metrics' = r[3]
    /\ UNCHANGED <<cost_weight, performance_weight>>
    /\ UNCHANGED ingestion

\* the cost slider moves to a position of V: update_performance_weight, then
\* the rerun
CostSliderMoved(V) ==
    /\ SlidersShown(data)
    /\ \E v \in V \ {cost_weight} :
          /\ cost_weight' = v
          /\ performance_weight' = update_performance_weight(v, performance_weight)
          /\ \E r \in main(data, cost_weight', performance_weight', session_state,
                            FALSE) :
                session_state' = r[1] /\ call' = r[2] /\ metrics' = r[3]
    /\ UNCHANGED data
    /\ UNCHANGED ingestion

\* the performance slider moves to a position of V: update_cost_weight, then
\* the rerun
PerformanceSliderMoved(V) ==
    /\ SlidersShown(data)
    /\ \E v \in V \ {performance_weight} :
          /\ performance_weight' = v
          /\ cost_weight' = update_cost_weight(cost_weight, v)
          /\ \E r \in main(data, cost_weight', performance_weight', session_state,
                            FALSE) :
                session_state' = r[1] /\ call' = r[2] /\ metrics' = r[3]
    /\ UNCHANGED data
    /\ UNCHANGED ingestion

MoveCostSlider == CostSliderMoved(SliderStops)
MovePerformanceSlider == PerformanceSliderMoved(SliderStops)

\* the Run Optimization button: the rerun reaches run_optimization after the table
ClickRunOptimization ==
    /\ SlidersShown(data)
    /\ \E r \in main(data, cost_weight, performance_weight, session_state, TRUE) :
          session_state' = r[1] /\ call' = r[2] /\ metrics' = r[3]
    /\ UNCHANGED <<data, cost_weight, performance_weight>>
    /\ UNCHANGED ingestion

NextDash ==
    ChangeFilters \/ MoveCostSlider \/ MovePerformanceSlider \/ ClickRunOptimization

SpecDash == InitDash /\ [][NextDash]_vars

(***************************************************************************)
(* The weight sliders over their whole range, on the unfiltered data       *)
(***************************************************************************)
InitSliders ==
    /\ data = comprehensive_data
    /\ cost_weight = default_cost_weight
    /\ performance_weight = default_performance_weight
    /\ \E r \in main(data, default_cost_weight, default_performance_weight,
                      EmptySession, FALSE) :
          session_state = r[1] /\ call = r[2] /\ metrics = r[3]
    /\ NotIngested

SlideCostWeight == CostSliderMoved(SliderValues)
SlidePerformanceWeight == PerformanceSliderMoved(SliderValues)

NextSliders == SlideCostWeight \/ SlidePerformanceWeight \/ ClickRunOptimization

SpecSliders == InitSliders /\ [][NextSliders]_vars

(***************************************************************************)
(* Performance ingestion and backfill (data_processor.py,                  *)
(* performance_calculator.py).  A Performance_Score is held here as the    *)
(* fraction <<n, d>> of a percent, in lowest terms: <<60, 1>> is 0.6 and   *)
(* <<170, 3>> is 1.7/3.  NaN is <<0, 0>>.                                  *)
(***************************************************************************)
MaxLaneCount == 2

NaN == <<0, 0>>
isna(s) == s[2] = 0

RECURSIVE GCD(_, _)
GCD(a, b) == IF b = 0 THEN a ELSE GCD(b, a % b)
Abs(n) == IF n < 0 THEN -n ELSE n
\* the number n/d
Frac(n, d) == LET g == GCD(Abs(n), d) IN <<n \div g, d \div g>>
FracAdd(a, b) == Frac(a[1] * b[2] + b[1] * a[2], a[2] * b[2])
FracTimes(a, k) == Frac(a[1] * k, a[2])
FracOver(a, k) == Frac(a[1], a[2] * k)

\* the cells of a WKnn column of the sheet; "nan" is an empty cell
Cells == {"60%", "120%", "nan"}
\* .astype(str).str.replace('%', '').str.replace('nan', '').replace('', None),
\* then pd.to_numeric(errors='coerce') / 100
to_numeric(cell) ==
    CASE cell = "60%" -> Frac(60, 1)
      [] cell = "120%" -> Frac(120, 1)
      [] OTHER -> NaN
\* .clip(0, 1)
clip(s) ==
    IF isna(s) THEN NaN
    ELSE IF s[1] < 0 THEN Frac(0, 1)
    ELSE IF s[1] > 100 * s[2] THEN Frac(100, 1)
    ELSE s

\* the week columns of the sheet, WK5 and WK6, and its carriers, one row each
week_columns == <<5, 6>>
SheetCarriers == <<"A", "B">>
SheetRow(carrier, wk5, wk6) == [Carrier |-> carrier, WK5 |-> wk5, WK6 |-> wk6]
Sheets ==
    { [ r \in DOMAIN SheetCarriers |-> SheetRow(SheetCarriers[r], c[r][1], c[r][2]) ] :
        c \in [DOMAIN SheetCarriers -> Cells \X Cells] }

\* the rows of lane_count: week, carrier, lane and the number of containers
\* (a group size, so at least 1); carrier C and week 7 are not in the sheet
LaneCountRow(w, c, n) ==
    [Week_Number |-> w, Dray_SCAC |-> c, Lane |-> "L1", Container_Count |-> n]
LaneCountRows ==
    { LaneCountRow(w, c, n) : w \in {5, 6, 7}, c \in {"A", "B", "C"}, n \in {1, 2} }
\* carrier A in the two weeks of the sheet and in a week outside it, next to
\* a carrier the sheet does not have
BackfillScenario ==
    << LaneCountRow(5, "A", 1), LaneCountRow(6, "A", 2), LaneCountRow(7, "A", 1),
       LaneCountRow(5, "C", 1) >>
LaneCounts ==
    UNION { [1..k -> LaneCountRows] : k \in 1..MaxLaneCount } \cup {BackfillScenario}

\* melt(id_vars=['Carrier'], value_vars=week_columns) with the scores cleaned
\* and clipped: a row per week column and sheet row, week column by week column
performance_melted(sheet) ==
    [ k \in 1..(Len(week_columns) * Len(sheet)) |->
        LET w == ((k - 1) \div Len(sheet)) + 1
            r == ((k - 1) % Len(sheet)) + 1
        IN  [ Carrier |-> sheet[r].Carrier,
              Week_Number |-> week_columns[w],
              Performance_Score |->
                  clip(to_numeric(IF w = 1 THEN sheet[r].WK5 ELSE sheet[r].WK6)) ] ]

\* the rows of the frame f that have the carrier and a score
ValidRecords(f, carrier) ==
    { i \in DOMAIN f : f[i].Carrier = carrier /\ ~isna(f[i].Performance_Score) }

RECURSIVE SumWeighted(_, _)
SumWeighted(f, I) ==
    IF I = {} THEN Frac(0, 1)
    ELSE LET i == CHOOSE j \in I : TRUE
         IN  FracAdd(FracTimes(f[i].Performance_Score, f[i].Container_Count),
                     SumWeighted(f, I \ {i}))
RECURSIVE SumScores(_, _)
SumScores(f, I) ==
    IF I = {} THEN Frac(0, 1)
    ELSE LET i == CHOOSE j \in I : TRUE
         IN  FracAdd(f[i].Performance_Score, SumScores(f, I \ {i}))
\* valid_records['Performance_Score'].mean()
MeanScore(f, I) == FracOver(SumScores(f, I), Cardinality(I))

\* a row of the merged frame that found no row of the sheet has Carrier NaN
NoCarrier == "NaN"

\* (mutant) the simple average of the carrier's scores, whatever the volume
weighted_performance_Unweighted(f, I) == MeanScore(f, I)

\* the volume weighted average of the valid records I of one carrier
weighted_performance(f, I) ==
    IF SumCount(f, I) > 0
    THEN FracOver(SumWeighted(f, I), SumCount(f, I))
    ELSE MeanScore(f, I)

\* get_carrier_weighted_performance(f): the carriers of column Carrier that
\* have a record with a score, each with its volume weighted average
get_carrier_weighted_performance(f) ==
    [ carrier \in { c \in { f[i].Carrier : i \in DOMAIN f } \ {NoCarrier} :
                      ValidRecords(f, c) # {} } |->
        weighted_performance(f, ValidRecords(f, carrier)) ]

\* fill_missing_performance_scores(performance_clean): every row weighs 1
fill_missing_performance_scores(performance_clean) ==
    LET performance_data ==
            [ k \in DOMAIN performance_clean |->
                [ Carrier |-> performance_clean[k].Carrier,
                  Week_Number |-> performance_clean[k].Week_Number,
                  Performance_Score |-> performance_clean[k].Performance_Score,
                  Container_Count |-> 1 ] ]
        carrier_weighted_performance ==
            get_carrier_weighted_performance(performance_data)
    IN  [ k \in DOMAIN performance_clean |->
            IF /\ isna(performance_clean[k].Performance_Score)
               /\ performance_clean[k].Carrier \in DOMAIN carrier_weighted_performance
            THEN [ performance_clean[k] EXCEPT !.Performance_Score =
                     carrier_weighted_performance[performance_clean[k].Carrier] ]
            ELSE performance_clean[k] ]

\* process_performance_data(Performancedata, True): performance_filled
process_performance_data(sheet) ==
    fill_missing_performance_scores(performance_melted(sheet))

\* pd.merge(merged_data, performance_clean, left_on=['Dray SCAC(FL)', 'Week
\* Number'], right_on=['Carrier', 'Week Number'], how='left')
merge_performance(lc, performance_clean) ==
    [ i \in DOMAIN lc |->
        LET match == { k \in DOMAIN performance_clean :
                         /\ performance_clean[k].Carrier = lc[i].Dray_SCAC
                         /\ performance_clean[k].Week_Number = lc[i].Week_Number }
        IN  [ Week_Number |-> lc[i].Week_Number, Dray_SCAC |-> lc[i].Dray_SCAC,
              Lane |-> lc[i].Lane, Container_Count |-> lc[i].Container_Count,
              Carrier |-> IF match = {} THEN NoCarrier ELSE lc[i].Dray_SCAC,
              Performance_Score |->
                  IF match = {} THEN NaN
                  ELSE performance_clean[FirstRow(match)].Performance_Score ] ]

\* the rows of the frame m that have a score
Observed(m) == { i \in DOMAIN m : ~isna(m[i].Performance_Score) }

\* "else 3.0": the score of a dataset without any observed score
default_global_performance == Frac(300, 1)

\* merged_data['Performance_Score'].dropna().mean() if there is one, else 3.0
global_avg_performance(m) ==
    IF Observed(m) # {} THEN MeanScore(m, Observed(m))
    ELSE default_global_performance

\* apply_volume_weighted_performance(merged_data) on a frame that has a
\* Performance_Score column and is not marked processed: the frame it returns
apply_volume_weighted_performance(m) ==
    IF Observed(m) = DOMAIN m THEN m
    ELSE LET carrier_weighted_performance == get_carrier_weighted_performance(m)
             weighted_avg(carrier) ==
                 IF carrier \in DOMAIN carrier_weighted_performance
                 THEN carrier_weighted_performance[carrier]
                 ELSE global_avg_performance(m)
         IN  [ i \in DOMAIN m |->
                 IF isna(m[i].Performance_Score)
                 THEN [ m[i] EXCEPT !.Performance_Score = weighted_avg(m[i].Dray_SCAC) ]
                 ELSE m[i] ]

\* the frame merge_all_data hands to apply_volume_weighted_performance
merged_before_fill(sheet, lc) == merge_performance(lc, process_performance_data(sheet))

\* merge_all_data(...) with a performance sheet: merged_data
merge_all_data(sheet, lc) ==
    apply_volume_weighted_performance(merged_before_fill(sheet, lc))

\* the uploaded files
InitIngestion ==
    /\ Performancedata \in Sheets
    /\ lane_count \in LaneCounts
    /\ merged_data = <<>>
    /\ performance_processed = FALSE
    /\ data = <<>>
    /\ cost_weight = default_cost_weight
    /\ performance_weight = default_performance_weight
    /\ session_state = EmptySession
    /\ call = NoCall
    /\ metrics = NotCalculated

\* main: process_performance_data, then merge_all_data, which returns a new
\* frame (dropna), not marked processed
MergeAllData ==
    /\ merged_data = <<>>
    /\ merged_data' = merge_all_data(Performancedata, lane_count)
    /\ performance_processed' = FALSE
    /\ UNCHANGED <<Performancedata, lane_count>>
    /\ UNCHANGED <<data, cost_weight, performance_weight, session_state, call, metrics>>

\* main: merged_data = apply_volume_weighted_performance(merged_data)
ApplyVolumeWeightedPerformance ==
    /\ merged_data # <<>>
    /\ ~performance_processed
    /\ merged_data' = apply_volume_weighted_performance(merged_data)
    /\ performance_processed' = TRUE
    /\ UNCHANGED <<Performancedata, lane_count>>
    /\ UNCHANGED <<data, cost_weight, performance_weight, session_state, call, metrics>>

NextIngestion == MergeAllData \/ ApplyVolumeWeightedPerformance

SpecIngestion == InitIngestion /\ [][NextIngestion]_vars

(***************************************************************************)
(* calculate_performance_optimization: the Best Performance strategy       *)
(***************************************************************************)
RECURSIVE SumPerformanceCount(_, _)
SumPerformanceCount(d, I) ==
    IF I = {} THEN 0
    ELSE LET i == CHOOSE j \in I : TRUE
         IN  d[i].Performance_Score * d[i].Container_Count
               + SumPerformanceCount(d, I \ {i})

\* carrier_weighted_performance[carrier]: the volume weighted average of the
\* carrier's scores over all weeks, 0 when it has none; a total volume of 0
\* divides 0 by 0
carrier_weighted_average(d, carrier) ==
    LET valid_perf_records ==
            { i \in DOMAIN d : d[i].Dray_SCAC = carrier /\ d[i].Performance_Score # NA }
    IN  IF valid_perf_records = {} THEN Frac(0, 1)
        ELSE IF SumCount(d, valid_perf_records) = 0 THEN NaN
        ELSE Frac(SumPerformanceCount(d, valid_perf_records),
                  SumCount(d, valid_perf_records))

\* the performance the record i counts with
effective_performance(d, i) ==
    IF d[i].Performance_Score # NA THEN Frac(d[i].Performance_Score, 1)
    ELSE carrier_weighted_average(d, d[i].Dray_SCAC)

LastRow(I) == CHOOSE i \in I : \A j \in I : j <= i

\* carriers_performance[carrier] of the group rows I: the entry of the
\* carrier's last record
carriers_performance(d, I, carrier) ==
    LET record == LastRow({ i \in I : d[i].Dray_SCAC = carrier })
    IN  [ performance |-> effective_performance(d, record),
          base_rate |-> d[record].Base_Rate ]

\* a > b on floats: False when either is NaN
FracGreater(a, b) == ~isna(a) /\ ~isna(b) /\ a[1] * b[2] > b[1] * a[2]

\* (mutant) the first carrier of the group, whatever the performance
best_carrier_First(d, I, K) == d[FirstRow(K)].Dray_SCAC

\* max(carriers_performance.keys(), key=performance) over the keys first
\* inserted at the rows K of the group rows I: the first key of the greatest
\* performance, in insertion order
RECURSIVE best_carrier(_, _, _)
best_carrier(d, I, K) ==
    LET k == LastRow(K)
    IN  IF K = {k} THEN d[k].Dray_SCAC
        ELSE LET best == best_carrier(d, I, K \ {k})
             IN  IF FracGreater(carriers_performance(d, I, d[k].Dray_SCAC).performance,
                                carriers_performance(d, I, best).performance)
                 THEN d[k].Dray_SCAC
                 ELSE best

\* the rows of I at which a carrier occurs first: the keys of the dict
FirstOccurrences(d, I) ==
    { i \in I : \A j \in I : d[j].Dray_SCAC = d[i].Dray_SCAC => i <= j }

\* lane_week_cost: all volume of the group to its best performing carrier
lane_week_cost(d, g) ==
    LET group == LaneWeekRows(d, g[1], g[2])
        best == best_carrier(d, group, FirstOccurrences(d, group))
    IN  carriers_performance(d, group, best).base_rate * SumCount(d, group)

RECURSIVE SumLaneWeekCost(_, _)
SumLaneWeekCost(d, G) ==
    IF G = {} THEN 0
    ELSE LET g == CHOOSE h \in G : TRUE
         IN  lane_week_cost(d, g) + SumLaneWeekCost(d, G \ {g})

\* calculate_performance_optimization(final_filtered_data)[0]: highest_perf_cost
calculate_performance_optimization(d) == SumLaneWeekCost(d, LaneWeekKeys(d))

(***************************************************************************)
(* find_suboptimal_selections                                              *)
(***************************************************************************)
\* "Skip if no performance data"
HasPerformance(r) == r.Performance_Score # NA /\ r.Performance_Score > 0

\* the rows of current's group that are BOTH cheaper AND better than current
BetterAlternatives(d, current) ==
    { alternative \in LaneWeekRows(d, d[current].Lane, d[current].Week_Number) :
        /\ alternative # current
        /\ HasPerformance(d[alternative])
        /\ d[alternative].Base_Rate < d[current].Base_Rate
        /\ d[alternative].Performance_Score > d[current].Performance_Score }

\* find_suboptimal_selections(data): one entry for every row of a group of two
\* rows or more that has performance data and a cheaper and better alternative
\* in its group, with the first such alternative
find_suboptimal_selections(d) ==
    { [ Lane |-> d[current].Lane, Week |-> d[current].Week_Number,
        Current_Carrier |-> d[current].Dray_SCAC,
        Better_Carrier |-> d[FirstRow(BetterAlternatives(d, current))].Dray_SCAC ] :
        current \in { c \in DOMAIN d :
                        /\ Cardinality(LaneWeekRows(d, d[c].Lane, d[c].Week_Number)) >= 2
                        /\ HasPerformance(d[c])
                        /\ BetterAlternatives(d, c) # {} } }

(***************************************************************************)
(* Properties                                                              *)
(***************************************************************************)
\* the call ended with a solution: run_optimization completed, or
\* get_optimization_results returned a data frame
Solved ==
    \/ call.op = "run_optimization" /\ call.outcome = "complete"
    \/ call.op = "get_optimization_results" /\ call.outcome = "result_df"

\* the solver was called and did not come back with Optimal
SolveFailed ==
    \/ call.outcome \in {"failed", "error"}
    \/ call.op = "get_optimization_results" /\ call.outcome = "None"
         /\ call.offers # <<>>

CompletePerformance == \A i \in DOMAIN data : data[i].Performance_Score # NA

InputGroups == { <<data[i].Lane, data[i].Week_Number>> : i \in DOMAIN data }
InputRows(g) == { i \in DOMAIN data : data[i].Lane = g[1] /\ data[i].Week_Number = g[2] }
InputCarriers(g) == { data[i].Dray_SCAC : i \in InputRows(g) }
RowsOfGroup(rows, g) ==
    { i \in DOMAIN rows : rows[i].Lane = g[1] /\ rows[i].Week_Number = g[2] }

RECURSIVE InputVolume(_)
InputVolume(I) ==
    IF I = {} THEN 0
    ELSE LET i == CHOOSE j \in I : TRUE
         IN  data[i].Container_Count + InputVolume(I \ {i})

\* C1: when the data is complete and the solve is Optimal, the result has exactly
\* one row for every (Lane, Week Number) group of the input and no row for any
\* other group.
C1_OneRowPerGroup ==
    Solved =>
        /\ \A g \in InputGroups : Cardinality(RowsOfGroup(call.rows, g)) = 1
        /\ \A i \in DOMAIN call.rows :
              <<call.rows[i].Lane, call.rows[i].Week_Number>> \in InputGroups

\* a solved call on a dataset with a several-record group and a one-record group
C1_Witness ==
    /\ Solved
    /\ \E g, h \in InputGroups :
          Cardinality(InputCarriers(g)) > 1 /\ Cardinality(InputRows(h)) = 1

\* The score of the specification's section 4.2 for offer i of an offer set,
\* with the bounds taken over the whole set, multiplied by the positive number
\* (costWeight + performanceWeight) * (rate span) * (performance span).
SpecSpan(S) == IF Max(S) = Min(S) THEN 1 ELSE Max(S) - Min(S)
SpecRates(offers) == { offers[i].Base_Rate : i \in DOMAIN offers }
SpecPerfs(offers) == { offers[i].Performance_Score : i \in DOMAIN offers }
SpecScore(offers, i, cw, pw) ==
    LET c == IF cw + pw = 0 THEN 1 ELSE cw
        p == IF cw + pw = 0 THEN 1 ELSE pw
    IN  c * (offers[i].Base_Rate - Min(SpecRates(offers))) * SpecSpan(SpecPerfs(offers))
            * offers[i].Total_Lane_Volume
        - p * (offers[i].Performance_Score - Min(SpecPerfs(offers)))
            * SpecSpan(SpecRates(offers)) * offers[i].Total_Lane_Volume

RECURSIVE SpecScoreSum(_, _, _, _, _)
SpecScoreSum(offers, x, cw, pw, I) ==
    IF I = {} THEN 0
    ELSE LET i == CHOOSE j \in I : TRUE
         IN  x[i] * SpecScore(offers, i, cw, pw)
               + SpecScoreSum(offers, x, cw, pw, I \ {i})

\* the assignments that select exactly one offer in every group
OnePerGroup(offers) ==
    { x \in [DOMAIN offers -> {0, 1}] :
        \A i \in DOMAIN offers :
            Cardinality({ j \in DOMAIN offers :
                            /\ offers[j].Lane = offers[i].Lane
                            /\ offers[j].Week_Number = offers[i].Week_Number
                            /\ x[j] = 1 }) = 1 }

InputTriples ==
    { <<data[i].Lane, data[i].Week_Number, data[i].Dray_SCAC>> : i \in DOMAIN data }

\* C2: the assignment perform_optimization returns selects one offer per group
\* and no one-per-group assignment over the offers of the input has a smaller sum
\* of scores; for L1 = {A (500, 0.6), B (450, 0.9)}, volume 10 and weights
\* 0.7/0.3 it selects carrier B at a cost of 4500.
C2_MinimisesScore ==
    (call.op = "run_optimization" /\ call.outcome = "complete") =>
        /\ Len(call.offers) = Cardinality(InputTriples)
        /\ call.varValue \in OnePerGroup(call.offers)
        /\ \A y \in OnePerGroup(call.offers) :
              SpecScoreSum(call.offers, call.varValue, call.cost_weight,
                           call.performance_weight, DOMAIN call.offers)
                <= SpecScoreSum(call.offers, y, call.cost_weight,
                                call.performance_weight, DOMAIN call.offers)
        /\ (data = ScenarioData /\ cost_weight = 7 /\ performance_weight = 3) =>
              \E i \in DOMAIN call.rows :
                  /\ call.rows[i].Lane = "L1"
                  /\ call.rows[i].Dray_SCAC = "B"
                  /\ call.rows[i].Total_Rate = 4500

\* the scenario has been solved by run_optimization
C2_Witness ==
    /\ call.op = "run_optimization" /\ call.outcome = "complete"
    /\ data = ScenarioData /\ cost_weight = 7 /\ performance_weight = 3

\* the offers of the input in group g, and what a row of the result selected
GroupOfferSet(g) ==
    LET offers == lane_week_carriers(data)
    IN  { o \in { offers[i] : i \in DOMAIN offers } :
            o.Lane = g[1] /\ o.Week_Number = g[2] }
RowGroup(r) == <<r.Lane, r.Week_Number>>

MinRateSelected(r) ==
    \A o \in GroupOfferSet(RowGroup(r)) : r.Base_Rate <= o.Base_Rate
MaxPerformanceSelected(r) ==
    \A o \in GroupOfferSet(RowGroup(r)) : r.Performance_Score >= o.Performance_Score

\* C3 as stated: with costWeight = 1 and performanceWeight = 0 the selected offer
\* of every group has the minimum rate of the group, for every volume >= 0.
C3_MinRate_AnyVolume ==
    (Solved /\ call.cost_weight = 10 /\ call.performance_weight = 0) =>
        \A i \in DOMAIN call.rows : MinRateSelected(call.rows[i])

\* C3 amended: with costWeight = 1 and performanceWeight = 0 the selected offer
\* of every group whose total volume is greater than 0 has the minimum rate of
\* the group.
C3_MinRate ==
    (Solved /\ call.cost_weight = 10 /\ call.performance_weight = 0) =>
        \A i \in DOMAIN call.rows :
            call.rows[i].Container_Count > 0 => MinRateSelected(call.rows[i])

\* a solved cost-only call on a group of positive volume whose offers differ in rate
C3_Witness ==
    /\ Solved /\ call.cost_weight = 10 /\ call.performance_weight = 0
    /\ \E i \in DOMAIN call.rows :
          /\ call.rows[i].Container_Count > 0
          /\ \E o \in GroupOfferSet(RowGroup(call.rows[i])) :
                o.Base_Rate > call.rows[i].Base_Rate

\* C4 as stated: with costWeight = 0 and performanceWeight = 1 the selected offer
\* of every group has the maximum performance of the group, for every volume >= 0.
C4_MaxPerformance_AnyVolume ==
    (Solved /\ call.cost_weight = 0 /\ call.performance_weight = 10) =>
        \A i \in DOMAIN call.rows : MaxPerformanceSelected(call.rows[i])

\* C4 amended: with costWeight = 0 and performanceWeight = 1 the selected offer
\* of every group whose total volume is greater than 0 has the maximum
\* performance of the group.
C4_MaxPerformance ==
    (Solved /\ call.cost_weight = 0 /\ call.performance_weight = 10) =>
        \A i \in DOMAIN call.rows :
            call.rows[i].Container_Count > 0 => MaxPerformanceSelected(call.rows[i])

\* a solved performance-only call on a group of positive volume whose offers
\* differ in performance
C4_Witness ==
    /\ Solved /\ call.cost_weight = 0 /\ call.performance_weight = 10
    /\ \E i \in DOMAIN call.rows :
          /\ call.rows[i].Container_Count > 0
          /\ \E o \in GroupOfferSet(RowGroup(call.rows[i])) :
                o.Performance_Score < call.rows[i].Performance_Score

\* the groups of the input that have exactly one offer (one carrier)
SingleOfferGroups == { g \in InputGroups : Cardinality(InputCarriers(g)) = 1 }

\* the only offer of the single-offer group g is a row of the result, at a cost of
\* its rate times the volume of the group
OnlyOfferSelected(g) ==
    \E i \in RowsOfGroup(call.rows, g) :
        /\ call.rows[i].Dray_SCAC \in InputCarriers(g)
        /\ \E j \in InputRows(g) : call.rows[i].Base_Rate = data[j].Base_Rate
        /\ call.rows[i].Total_Rate = call.rows[i].Base_Rate * InputVolume(InputRows(g))

\* C5: in every entry point, on complete data and unless the solve itself fails,
\* every group with exactly one offer has that offer selected, whatever the
\* weights; the single offer (carrierC, 600, volume 20) of L2 week 5 is selected
\* at a total cost of 12000.
C5_SingletonSelected ==
    (call.op # "none" /\ CompletePerformance /\ ~SolveFailed) =>
        /\ \A g \in SingleOfferGroups : OnlyOfferSelected(g)
        /\ data = SingletonData =>
              \E i \in DOMAIN call.rows :
                  call.rows[i].Dray_SCAC = "C" /\ call.rows[i].Total_Rate = 12000

RECURSIVE RowsCost(_, _)
RowsCost(rows, I) ==
    IF I = {} THEN 0
    ELSE LET i == CHOOSE j \in I : TRUE
         IN  rows[i].Total_Rate + RowsCost(rows, I \ {i})

\* C7: when the data is complete and every group has exactly one offer, a call of
\* either entry point (unless the solve itself fails) ends with a result that has
\* the only offer of every group, and run_optimization reports the total cost.
C7_AllSingletonsSolved ==
    ( /\ call.op # "none" /\ data # <<>> /\ CompletePerformance /\ ~SolveFailed
      /\ SingleOfferGroups = InputGroups ) =>
        /\ Solved
        /\ \A g \in InputGroups : OnlyOfferSelected(g)
        /\ call.op = "run_optimization" =>
              /\ Has(session_state, "optimization_cost")
              /\ session_state["optimization_cost"] = RowsCost(call.rows, DOMAIN call.rows)

\* C8: whenever an entry point sets up the objective, the bounds it normalises
\* with are those of all offers of the run, the offers of one-record groups
\* included.
C8_GlobalBounds ==
    (call.op # "none" /\ call.offers # <<>>) =>
        NormBounds(call.offers) = NormBounds(lane_week_carriers(data))

\* C9: every offer built for a group carries the group's total Container Count
\* over all carriers, and so does every row of the result.
C9_GroupVolume ==
    /\ \A i \in DOMAIN call.offers :
          call.offers[i].Total_Lane_Volume
            = InputVolume(InputRows(<<call.offers[i].Lane, call.offers[i].Week_Number>>))
    /\ \A i \in DOMAIN call.rows :
          call.rows[i].Container_Count = InputVolume(InputRows(RowGroup(call.rows[i])))

\* a solved call on a group whose two carriers both carry volume
C9_Witness ==
    /\ Solved /\ call.offers # <<>>
    /\ \E i, j \in DOMAIN data :
          /\ data[i].Lane = data[j].Lane /\ data[i].Week_Number = data[j].Week_Number
          /\ data[i].Dray_SCAC # data[j].Dray_SCAC
          /\ data[i].Container_Count > 0 /\ data[j].Container_Count > 0

\* C10: after any sequence of filter and slider changes, the rows of the
\* Optimized scenario kept in session_state.analysis_scenarios are a result of
\* get_optimization_results for the current dataset and the current weights.
C10_OptimizedScenarioCurrent ==
    (Len(data) > 0 /\ Has(session_state, "analysis_scenarios")) =>
        session_state["analysis_scenarios"].data
          \in { OptimizedScenario(data, c).data :
                  c \in get_optimization_results(data, cost_weight, performance_weight,
                                                  session_state) }

\* C11: after any sequence of reruns, what the current run reports is what a
\* first run on the same data and weights can report: the Optimized scenario of
\* the analysis table, the result of run_optimization and the metrics are those
\* of a run that starts from an empty session.
C11_NoStateReuse ==
    /\ (Len(data) > 0 /\ Has(session_state, "analysis_scenarios")) =>
          session_state["analysis_scenarios"].data
            \in { r[1]["analysis_scenarios"].data :
                    r \in show_detailed_analysis_table(data, cost_weight,
                                                       performance_weight, EmptySession) }
    /\ call.op = "run_optimization" =>
          call \in { r[2] : r \in run_optimization(data, cost_weight,
                                                   performance_weight, EmptySession) }
    /\ metrics \in { r[1] : r \in calculate_enhanced_metrics(data, cost_weight,
                                                             performance_weight,
                                                             EmptySession) }

\* the factors the weights are scaled by
ScaleFactors == {2, 10}

\* C12: for the weights (k*c, k*p), k > 0, every offer has the objective
\* coefficient it has for (c, p) (ObjectiveCoef is the coefficient times
\* total_weight, and both grow by the factor k), so the solver selects the same;
\* the selection made for (7, 3) is one the solver can make for (0.7, 0.3) and
\* the other way round, with the same rows and cost.
C12_ScaleInvariant ==
    (call.op # "none" /\ call.offers # <<>>
       /\ call.cost_weight + call.performance_weight > 0) =>
        LET cw == call.cost_weight
            pw == call.performance_weight
        IN  /\ \A k \in ScaleFactors : \A i \in DOMAIN call.offers :
                  /\ total_weight(k * cw, k * pw) = k * total_weight(cw, pw)
                  /\ ObjectiveCoef(call.offers, i, k * cw, k * pw)
                       = k * ObjectiveCoef(call.offers, i, cw, pw)
            /\ call.varValue # <<>> =>
                  call.varValue \in OptimalAssignments(call.offers, 10 * cw, 10 * pw)
            /\ (call.varValue # <<>> /\ cw % 10 = 0 /\ pw % 10 = 0) =>
                  call.varValue \in OptimalAssignments(call.offers, cw \div 10, pw \div 10)

\* the selected offer of some group differs from another offer of the group in
\* rate and in performance, one cheaper, the other better
TradeOffSolved ==
    /\ Solved /\ call.varValue # <<>>
    /\ \E i, j \in DOMAIN call.offers :
          /\ call.offers[i].Lane = call.offers[j].Lane
          /\ call.offers[i].Week_Number = call.offers[j].Week_Number
          /\ call.offers[i].Total_Lane_Volume > 0
          /\ call.offers[i].Base_Rate < call.offers[j].Base_Rate
          /\ call.offers[i].Performance_Score < call.offers[j].Performance_Score

\* a trade-off solved with the weights 7 and 3
C12_Witness ==
    TradeOffSolved /\ call.cost_weight = 70 /\ call.performance_weight = 30

SameRates ==
    LET offers == lane_week_carriers(data)
    IN  \A i, j \in DOMAIN offers : offers[i].Base_Rate = offers[j].Base_Rate

\* C14 as stated: if all offers share one rate, the normalised cost of every
\* offer is 0 and, for every weight pair, the selected offer of every group has
\* the maximum performance of the group.
C14_EqualRates_AnyWeights ==
    (Solved /\ SameRates) =>
        /\ \A i \in DOMAIN call.offers : norm_cost(call.offers, i)[1] = 0
        /\ \A i \in DOMAIN call.rows : MaxPerformanceSelected(call.rows[i])

\* C14 amended: if all offers share one rate, the normalised cost of every offer
\* is 0 for every weight pair and, when the normalised performance weight is
\* greater than 0, the selected offer of every group whose total volume is
\* greater than 0 has the maximum performance of the group.
C14_EqualRates ==
    (Solved /\ SameRates) =>
        /\ \A i \in DOMAIN call.offers : norm_cost(call.offers, i)[1] = 0
        /\ norm_performance_weight(call.cost_weight, call.performance_weight) > 0 =>
              \A i \in DOMAIN call.rows :
                  call.rows[i].Container_Count > 0 =>
                      MaxPerformanceSelected(call.rows[i])

\* a solved call on offers of one rate, with a group of positive volume whose
\* offers differ in performance, under weights that count the cost as well
C14_Witness ==
    /\ Solved /\ SameRates /\ call.cost_weight = 7 /\ call.performance_weight = 3
    /\ \E i \in DOMAIN call.rows :
          /\ call.rows[i].Container_Count > 0
          /\ \E o \in GroupOfferSet(RowGroup(call.rows[i])) :
                o.Performance_Score < call.rows[i].Performance_Score

\* C15: on zero records every entry point ends with an empty solution of total
\* cost 0: run_optimization completes with no row and a cost of 0,
\* get_optimization_results returns an empty result and
\* calculate_enhanced_metrics returns metrics with an optimized cost of 0.
C15_EmptyInputSolution ==
    data = <<>> =>
        /\ call.op = "run_optimization" =>
              /\ call.outcome = "complete" /\ call.rows = <<>>
              /\ Has(session_state, "optimization_cost")
              /\ session_state["optimization_cost"] = 0
        /\ call.op = "get_optimization_results" =>
              call.outcome = "result_df" /\ call.rows = <<>>
        /\ metrics # NotCalculated =>
              metrics.returned = "metrics" /\ metrics.optimized_cost = 0

\* the solver was called and did not come back with an assignment
SolverNotOptimal ==
    call.op # "none" /\ call.offers # <<>> /\ call.varValue = <<>>

\* C16: when the solve is not Optimal or raises, the call ends without any
\* assignment row: get_optimization_results returns None, without the rows of
\* the single-carrier groups, run_optimization sets optimization_available to
\* False, and the metrics report the optimization as not available.
C16_NoPartialSolution ==
    SolverNotOptimal =>
        /\ call.rows = <<>>
        /\ ~Solved
        /\ call.op = "run_optimization" =>
              /\ Has(session_state, "optimization_available")
              /\ session_state["optimization_available"] = FALSE
        /\ call.op = "get_optimization_results" => call.outcome = "None"
        /\ metrics # NotCalculated => ~metrics.optimization_available

\* a failed solve of get_optimization_results on data that has a single-carrier
\* group next to the group the solve was for
C16_Witness ==
    /\ SolverNotOptimal /\ call.op = "get_optimization_results"
    /\ \E g \in InputGroups : Cardinality(InputRows(g)) = 1

\* the sum over the rows I of the row's rate times the total volume of its group
RECURSIVE SelectedCost(_, _)
SelectedCost(rows, I) ==
    IF I = {} THEN 0
    ELSE LET i == CHOOSE j \in I : TRUE
         IN  rows[i].Base_Rate * InputVolume(InputRows(RowGroup(rows[i])))
               + SelectedCost(rows, I \ {i})

\* C17: every row of a solution is an offer of its group with the group's total
\* volume and a cost of rate times volume, and the total cost that
\* run_optimization stores and that the metrics report is the sum over the
\* groups of the selected offer's rate times the group's total volume.
C17_TotalCost ==
    Solved =>
        /\ \A i \in DOMAIN call.rows :
              /\ call.rows[i].Total_Rate
                   = call.rows[i].Base_Rate * call.rows[i].Container_Count
              /\ call.rows[i].Container_Count
                   = InputVolume(InputRows(RowGroup(call.rows[i])))
              /\ \E o \in GroupOfferSet(RowGroup(call.rows[i])) :
                    /\ o.Dray_SCAC = call.rows[i].Dray_SCAC
                    /\ o.Base_Rate = call.rows[i].Base_Rate
        /\ call.op = "run_optimization" =>
              session_state["optimization_cost"]
                = SelectedCost(call.rows, DOMAIN call.rows)
        /\ metrics # NotCalculated =>
              /\ metrics.optimization_available
              /\ metrics.optimized_cost = SelectedCost(call.rows, DOMAIN call.rows)

\* a solution over two groups of positive volume, one of them with two carriers
\* that both carry volume
C17_Witness ==
    /\ Solved /\ Len(call.rows) > 1
    /\ \A i \in DOMAIN call.rows : call.rows[i].Total_Rate > 0
    /\ \E i, j \in DOMAIN data :
          /\ data[i].Lane = data[j].Lane /\ data[i].Week_Number = data[j].Week_Number
          /\ data[i].Dray_SCAC # data[j].Dray_SCAC
          /\ data[i].Container_Count > 0 /\ data[j].Container_Count > 0

\* the rows of the input the offers of the call were built from: all of them in
\* run_optimization, those of the groups of several records in
\* get_optimization_results
AggregatedRows ==
    IF call.op = "run_optimization" THEN DOMAIN data
    ELSE { k \in DOMAIN data :
             Cardinality(InputRows(<<data[k].Lane, data[k].Week_Number>>)) > 1 }
Triple(r) == <<r.Lane, r.Week_Number, r.Dray_SCAC>>
RowsOfTriple(t) == { k \in AggregatedRows : Triple(data[k]) = t }

\* C18: the offers are one per distinct (Lane, Week Number, carrier) of the
\* aggregated records, and the rate and the performance of an offer are those of
\* the first record, in input order, of its triple.
C18_FirstRecordPerTriple ==
    (call.op # "none" /\ call.offers # <<>>) =>
        /\ \A i, j \in DOMAIN call.offers :
              i # j => Triple(call.offers[i]) # Triple(call.offers[j])
        /\ { Triple(call.offers[i]) : i \in DOMAIN call.offers }
             = { Triple(data[k]) : k \in AggregatedRows }
        /\ \A i \in DOMAIN call.offers :
              \E k \in RowsOfTriple(Triple(call.offers[i])) :
                  /\ \A l \in RowsOfTriple(Triple(call.offers[i])) : k <= l
                  /\ call.offers[i].Base_Rate = data[k].Base_Rate
                  /\ call.offers[i].Performance_Score = data[k].Performance_Score

\* offers built from two records of one triple that disagree in rate and in
\* performance
C18_Witness ==
    /\ call.op # "none" /\ call.offers # <<>>
    /\ \E k, l \in AggregatedRows :
          /\ k < l /\ Triple(data[k]) = Triple(data[l])
          /\ data[k].Base_Rate # data[l].Base_Rate
          /\ data[k].Performance_Score # data[l].Performance_Score

\* C19: after any sequence of slider changes the two weights of the session lie
\* in [0, 1] and sum to 1, and so does the pair run_optimization is called with.
C19_SlidersSumToOne ==
    /\ cost_weight \in 0..10
    /\ performance_weight \in 0..10
    /\ cost_weight + performance_weight = 10
    /\ call.op = "run_optimization" =>
          /\ call.cost_weight = cost_weight
          /\ call.performance_weight = performance_weight
          /\ call.cost_weight + call.performance_weight = 10

\* run_optimization called after the sliders were moved away from 0.7/0.3
C19_Witness ==
    /\ call.op = "run_optimization"
    /\ cost_weight = 4 /\ performance_weight = 6

(***************************************************************************)
(* C21: what an optimizer call writes                                      *)
(***************************************************************************)
\* the session_state keys run_optimization assigns (lines 93-94, 135-137, 143, 147)
OptimizationKeys ==
    { "optimization_cost_weight", "optimization_performance_weight",
      "optimization_cost", "optimization_available", "optimization_savings" }

\* C21 as stated: an optimizer call leaves the caller's dataset unchanged and
\* writes no shared state: no step of a call changes data or session_state
C21_NoSideEffects ==
    [][data' = data /\ session_state' = session_state]_vars

\* C21, amended: every optimizer call leaves the caller's dataset unchanged;
\* get_optimization_results (also when calculate_enhanced_metrics calls it)
\* writes no session state; run_optimization writes session_state, and there
\* only the keys optimization_cost_weight, optimization_performance_weight,
\* optimization_cost, optimization_available and optimization_savings: every
\* other key keeps its value and no key is removed
C21_FrameEffect ==
    [][ /\ data' = data
        /\ call'.op = "get_optimization_results" => session_state' = session_state
        /\ call'.op = "run_optimization" =>
              /\ DOMAIN session_state \subseteq DOMAIN session_state'
              /\ \A k \in DOMAIN session_state' \ OptimizationKeys :
                    k \in DOMAIN session_state /\ session_state'[k] = session_state[k]
              /\ Has(session_state', "optimization_cost_weight")
              /\ session_state'["optimization_cost_weight"] = cost_weight
              /\ session_state'["optimization_performance_weight"] = performance_weight
      ]_vars

\* run_optimization has solved and stored its result in the session
C21_Witness ==
    /\ call.op = "run_optimization" /\ call.outcome = "complete"
    /\ Has(session_state, "optimization_available")
    /\ session_state["optimization_available"] = TRUE
    /\ Has(session_state, "optimization_cost")

(***************************************************************************)
(* C22: the program decomposes into one choice per lane-week group         *)
(***************************************************************************)
\* the score (objective coefficient) of every offer
RECURSIVE ScoresUpTo(_, _, _, _)
ScoresUpTo(offers, cw, pw, n) ==
    IF n = 0 THEN <<>>
    ELSE Append(ScoresUpTo(offers, cw, pw, n - 1), ObjectiveCoef(offers, n, cw, pw))
ScoreOf(offers, cw, pw) == ScoresUpTo(offers, cw, pw, Len(offers))

\* the offers of the group g whose score is minimal in g
MinScoreIn(offers, g, score) ==
    { i \in GroupOffers(offers, g) :
        \A j \in GroupOffers(offers, g) : score[i] <= score[j] }
MinScoreOffers(offers, g, cw, pw) == MinScoreIn(offers, g, ScoreOf(offers, cw, pw))

\* the assignments that pick, independently in each group, one offer of
\* minimal score and nothing else
PerGroupChoicesBy(offers, score) ==
    LET best == [ g \in OfferGroups(offers) |-> MinScoreIn(offers, g, score) ]
    IN  { x \in Assignments(offers) :
            \A g \in OfferGroups(offers) :
                \E i \in best[g] :
                    \A j \in GroupOffers(offers, g) : x[j] = (IF j = i THEN 1 ELSE 0) }
PerGroupChoices(offers, cw, pw) == PerGroupChoicesBy(offers, ScoreOf(offers, cw, pw))

\* no group has two offers tied for its minimal score
NoTiesBy(offers, score) ==
    \A g \in OfferGroups(offers) : Cardinality(MinScoreIn(offers, g, score)) = 1
NoScoreTies(offers, cw, pw) == NoTiesBy(offers, ScoreOf(offers, cw, pw))

\* the objective value of the assignment x: the sum of the scores it selects
RECURSIVE SumScore(_, _, _)
SumScore(score, x, n) ==
    IF n = 0 THEN 0 ELSE x[n] * score[n] + SumScore(score, x, n - 1)

\* C22: whenever a solve comes back Optimal, each assignment made of one
\* minimal-score offer per (lane, week) group satisfies every constraint and
\* has the objective value of the optimum the solver returned, and that
\* optimum is itself such an assignment (so the per-group choices are exactly
\* the optimal assignments, for every offer set and weight pair); when no
\* group has a tie for the minimal score there is one such assignment, the one
\* the solver returned
C22_PerGroupChoiceOptimal ==
    (call.offers # <<>> /\ call.varValue # <<>>) =>
        LET offers == call.offers
            score == ScoreOf(offers, call.cost_weight, call.performance_weight)
            greedy == PerGroupChoicesBy(offers, score)
            optimum == SumScore(score, call.varValue, Len(offers))
        IN  /\ call.varValue \in greedy
            /\ \A x \in greedy :
                  /\ Constraints(offers, x)
                  /\ SumScore(score, x, Len(offers)) = optimum
            /\ NoTiesBy(offers, score) => greedy = {call.varValue}

\* a solved call whose program has a group of two offers and no tie: the
\* solver returned the per-group choice, at a score other than 0
C22_Witness ==
    /\ Solved /\ Len(call.offers) >= 2
    /\ NoScoreTies(call.offers, call.cost_weight, call.performance_weight)
    /\ \E g \in OfferGroups(call.offers) :
          Cardinality(GroupOffers(call.offers, g)) = 2
    /\ call.varValue \in
          PerGroupChoices(call.offers, call.cost_weight, call.performance_weight)
    /\ \E i \in DOMAIN call.offers :
          /\ call.varValue[i] = 1
          /\ ObjectiveCoef(call.offers, i, call.cost_weight, call.performance_weight) # 0

(***************************************************************************)
(* C23: the constraints are satisfiable                                    *)
(***************************************************************************)
\* the groups whose constraint the decision variable of offer i occurs in
ConstraintsOf(offers, i) ==
    { g \in OfferGroups(offers) : i \in GroupOffers(offers, g) }

\* C23: for every non-empty offer set a call builds, some 0/1 assignment
\* satisfies all constraints of add_optimization_constraints; every (lane, week)
\* group of the offers has a constraint over at least one variable, and every
\* decision variable occurs in the constraint of exactly one group, its own
C23_NeverInfeasible ==
    call.offers # <<>> =>
        /\ Feasible(call.offers) # {}
        /\ \A g \in OfferGroups(call.offers) : GroupOffers(call.offers, g) # {}
        /\ \A i \in DOMAIN call.offers :
              ConstraintsOf(call.offers, i)
                = { <<call.offers[i].Lane, call.offers[i].Week_Number>> }

\* a program over one lane in two weeks next to a second lane
C23_Witness ==
    /\ call.offers # <<>>
    /\ Cardinality(OfferGroups(call.offers)) = 3
    /\ \E g \in OfferGroups(call.offers) :
          Cardinality(GroupOffers(call.offers, g)) = 2
    /\ \E g, h \in OfferGroups(call.offers) : g[1] = h[1] /\ g[2] # h[2]
    /\ Feasible(call.offers) # {}

(***************************************************************************)
(* C24: the two entry points on the same data and weights                  *)
(***************************************************************************)
\* the carriers the result rows assign the group g to
SelectedCarriers(rows, g) ==
    { rows[i].Dray_SCAC : i \in RowsOfGroup(rows, g) }

\* C24: when run_optimization (the Run Optimization button) has solved the
\* data at the weights of the session and no group has offers tied on score,
\* get_optimization_results (the metrics card and the Optimized table) on the
\* same data and weights selects the same carrier for every (lane, week) and
\* its rows add up to the total optimized cost run_optimization stored
C24_EntryPointsAgree ==
    ( /\ call.op = "run_optimization" /\ call.outcome = "complete"
      /\ NoScoreTies(call.offers, cost_weight, performance_weight) ) =>
        \A r \in get_optimization_results(data, cost_weight, performance_weight,
                                          session_state) :
            ( /\ r.outcome = "result_df"
              /\ r.offers # <<>> => NoScoreTies(r.offers, cost_weight,
                                                performance_weight) ) =>
                /\ \A g \in InputGroups :
                      SelectedCarriers(r.rows, g) = SelectedCarriers(call.rows, g)
                /\ SumResultTotalRate(r.rows, Len(r.rows))
                      = session_state["optimization_cost"]

(***************************************************************************)
(* C25: the stored result is that of the most recent run                   *)
(***************************************************************************)
\* C25: in every state a run_optimization call leaves behind, if
\* session_state.optimization_available is True the call is one that solved,
\* and optimization_cost, optimization_savings, optimization_cost_weight and
\* optimization_performance_weight are the values of that call; a call that
\* ended early or failed does not leave an older result marked available
C25_ResultOfLastRun ==
    ( /\ call.op = "run_optimization"
      /\ Has(session_state, "optimization_available")
      /\ session_state["optimization_available"] = TRUE ) =>
        /\ call.outcome = "complete"
        /\ session_state["optimization_cost"]
              = total_opt_cost(call.offers, call.varValue, Len(call.offers))
        /\ session_state["optimization_savings"]
              = SumTotalRate(data, DOMAIN data) - session_state["optimization_cost"]
        /\ session_state["optimization_cost_weight"] = call.cost_weight
        /\ session_state["optimization_performance_weight"] = call.performance_weight

(***************************************************************************)
(* C26: no dominated offer is selected                                     *)
(***************************************************************************)
\* offer j of the program has a strictly lower rate and a strictly higher
\* performance than offer i of the same group
Dominates(offers, j, i) ==
    /\ offers[j].Lane = offers[i].Lane
    /\ offers[j].Week_Number = offers[i].Week_Number
    /\ offers[j].Base_Rate < offers[i].Base_Rate
    /\ offers[j].Performance_Score > offers[i].Performance_Score

\* in a group of volume greater than 0 the solver selected no dominated offer
NoDominatedOfferSelected ==
    \A i \in DOMAIN call.offers :
        (call.varValue[i] = 1 /\ call.offers[i].Total_Lane_Volume > 0) =>
            ~ \E j \in DOMAIN call.offers : Dominates(call.offers, j, i)

\* no result row of a group of volume greater than 0 names a carrier that
\* find_suboptimal_selections flags in that group of the input data
NoFlaggedCarrierSelected ==
    \A i \in DOMAIN call.rows :
        call.rows[i].Container_Count > 0 =>
            ~ \E s \in find_suboptimal_selections(data) :
                /\ s.Lane = call.rows[i].Lane
                /\ s.Week = call.rows[i].Week_Number
                /\ s.Current_Carrier = call.rows[i].Dray_SCAC

\* every (lane, week, carrier) of the data has one rate and one performance
SingleValuedTriples ==
    \A i, j \in DOMAIN data :
        ( /\ data[i].Lane = data[j].Lane
          /\ data[i].Week_Number = data[j].Week_Number
          /\ data[i].Dray_SCAC = data[j].Dray_SCAC ) =>
            /\ data[i].Base_Rate = data[j].Base_Rate
            /\ data[i].Performance_Score = data[j].Performance_Score

RECURSIVE SumResultContainers(_, _)
SumResultContainers(rows, n) ==
    IF n = 0 THEN 0
    ELSE rows[n].Container_Count + SumResultContainers(rows, n - 1)

\* C27: the rows get_optimization_results returns, those of the solved
\* multi-carrier groups together with those of the single-carrier groups, carry
\* the Container Count of all input records: their sum equals the sum of
\* Container Count over the input, nothing lost and nothing counted twice
C27_VolumeCovered ==
    (call.op = "get_optimization_results" /\ call.outcome = "result_df") =>
        SumResultContainers(call.rows, Len(call.rows))
            = InputVolume(DOMAIN data)

\* a result made of a solved multi-carrier group and a single-carrier group,
\* both with volume
C27_Witness ==
    /\ call.op = "get_optimization_results" /\ call.outcome = "result_df"
    /\ call.offers # <<>>
    /\ Len(call.rows) > Cardinality(OfferGroups(call.offers))
    /\ \A i \in DOMAIN call.rows : call.rows[i].Container_Count > 0
    /\ InputVolume(DOMAIN data) >= 3

(***************************************************************************)
(* C28: the backfill leaves no score missing                               *)
(***************************************************************************)
\* the frame apply_volume_weighted_performance was given
BeforeFill == merged_before_fill(Performancedata, lane_count)

\* the records of the frame b, the carrier of record i, that have a score
CarrierObserved(b, i) ==
    { j \in Observed(b) : b[j].Dray_SCAC = b[i].Dray_SCAC }

\* the sum over the records I of b of weight * (score - s), weight being the
\* Container Count when byVolume and 1 otherwise: 0 exactly when s is the
\* (volume weighted) average of the scores of I
RECURSIVE SumDeviation(_, _, _, _)
SumDeviation(b, I, s, byVolume) ==
    IF I = {} THEN Frac(0, 1)
    ELSE LET i == CHOOSE j \in I : TRUE
             w == IF byVolume THEN b[i].Container_Count ELSE 1
         IN  FracAdd(FracTimes(FracAdd(b[i].Performance_Score, FracTimes(s, -1)), w),
                     SumDeviation(b, I \ {i}, s, byVolume))

\* C28: after apply_volume_weighted_performance has run on the merged data, no
\* record has a missing Performance_Score; a record that had a score keeps it;
\* a record without one whose carrier has an observed score holds the volume
\* weighted average of that carrier's observed scores; a record without one
\* whose carrier has none holds the average of all observed scores of the
\* dataset, when there is one
C28_NoMissingScore ==
    merged_data # <<>> =>
        LET b == BeforeFill
            observed == Observed(b)
        IN  /\ DOMAIN merged_data = DOMAIN b
            /\ \A i \in DOMAIN merged_data :
                  /\ ~isna(merged_data[i].Performance_Score)
                  /\ merged_data[i].Dray_SCAC = b[i].Dray_SCAC
                  /\ merged_data[i].Container_Count = b[i].Container_Count
                  /\ i \in observed =>
                        merged_data[i].Performance_Score = b[i].Performance_Score
                  /\ (i \notin observed /\ CarrierObserved(b, i) # {}) =>
                        SumDeviation(b, CarrierObserved(b, i),
                                     merged_data[i].Performance_Score, TRUE)[1] = 0
                  /\ (i \notin observed /\ CarrierObserved(b, i) = {}
                        /\ observed # {}) =>
                        SumDeviation(b, observed,
                                     merged_data[i].Performance_Score, FALSE)[1] = 0

\* the backfill has run on a frame in which a carrier has two observed scores
\* that differ, on different volumes, and a record without a score, and in
\* which another carrier has no observed score
C28_Witness ==
    /\ merged_data # <<>>
    /\ Len(lane_count) >= 4
    /\ LET b == BeforeFill
       IN  \E i, j, k, l \in DOMAIN b :
              /\ isna(b[i].Performance_Score)
              /\ {j, k} \subseteq CarrierObserved(b, i)
              /\ b[j].Performance_Score # b[k].Performance_Score
              /\ b[j].Container_Count # b[k].Container_Count
              /\ isna(b[l].Performance_Score) /\ CarrierObserved(b, l) = {}
              /\ merged_data[i].Performance_Score # merged_data[l].Performance_Score

(***************************************************************************)
(* C29: the scores lie in [0, 1]                                           *)
(***************************************************************************)
\* the score s, a fraction of a percent, lies in [0, 1]
InUnitInterval(s) == s[2] > 0 /\ 0 <= s[1] /\ s[1] <= 100 * s[2]

\* C29: after process_performance_data and apply_volume_weighted_performance
\* every Performance_Score of the merged data lies in [0, 1], the scores filled
\* in for carriers or whole datasets without observed performance included
C29_ScoresInUnitInterval ==
    \A i \in DOMAIN merged_data : InUnitInterval(merged_data[i].Performance_Score)

(***************************************************************************)
(* C30: Best Performance is the optimizer at weights 0 and 1               *)
(***************************************************************************)
\* every group has volume and no two carriers of a group have the same
\* performance
DistinctPerformanceInGroups ==
    \A g \in InputGroups :
        /\ InputVolume(InputRows(g)) > 0
        /\ \A i, j \in InputRows(g) :
              data[i].Dray_SCAC # data[j].Dray_SCAC =>
                  data[i].Performance_Score # data[j].Performance_Score

\* C30: on data with complete performance, one rate and performance per (lane,
\* week, carrier), volume in every group and no two carriers of a group tied
\* on performance, a solved optimizer call at cost weight 0 and performance
\* weight 1 has the total cost of the Best Performance strategy
\* (calculate_performance_optimization)
C30_BestPerformanceCost ==
    ( /\ Solved
      /\ call.cost_weight = 0 /\ call.performance_weight = 10
      /\ SingleValuedTriples
      /\ DistinctPerformanceInGroups ) =>
        SumResultTotalRate(call.rows, Len(call.rows))
            = calculate_performance_optimization(data)

\* a solved call at weights 0 and 1 on such data, in which the best performer
\* of a group is not its cheapest carrier
C30_Witness ==
    /\ Solved
    /\ call.cost_weight = 0 /\ call.performance_weight = 10
    /\ SingleValuedTriples
    /\ DistinctPerformanceInGroups
    /\ \E i \in DOMAIN call.rows : \E j \in DOMAIN data :
          /\ data[j].Lane = call.rows[i].Lane
          /\ data[j].Week_Number = call.rows[i].Week_Number
          /\ data[j].Base_Rate < call.rows[i].Base_Rate
    /\ calculate_performance_optimization(data) > 0

====
